---- MODULE Spec2Model ----
(***************************************************************************)
(* Model of scripts/update-coverage-badges.py.                             *)
(*                                                                         *)
(* A README document is the text read_text() returns (universal newlines: *)
(* it holds no "\r"), as a sequence of pieces.  A piece is one character   *)
(* ("\n", "\f", "=", "x", " "), one of the two delimiter markers, or a     *)
(* badge line.  The markers and the badge line are kept whole because the  *)
(* code only ever searches for them as literal substrings, neither marker  *)
(* has a border or overlaps the other, and each is a run of characters     *)
(* with no line boundary in it that is neither blank nor all "=".          *)
(*                                                                         *)
(* Spec        one invocation of main(), from the environment to exit.     *)
(* SpecReadme  update_readme() applied repeatedly to every document of at  *)
(*             most MaxDocLen pieces.                                      *)
(***************************************************************************)
EXTENDS Integers, Sequences, FiniteSets, TLC

VARIABLES
    environ,        \* os.environ: the two flags, each set or unset
    readme_exists,  \* README.exists()
    readme,         \* the content of README.md
    pc,             \* where main() is
    refresh,        \* main's local
    skip_git_add,   \* main's local
    report,         \* the coverage.json payload once it was read
    test_percent,   \* main's local
    doc_percent,    \* main's local
    badge_line,     \* main's local / update_readme's argument
    changed,        \* update_readme's return value
    trace,          \* what the invocation did to the outside, in order
    exit_code,      \* the process exit status once pc = "done"
    err,            \* the SystemExit message, "" when none
    orig,           \* history: the content the last update_readme call read
    calls           \* history: update_readme calls that returned normally

vars == <<environ, readme_exists, readme, pc, refresh, skip_git_add, report,
          test_percent, doc_percent, badge_line, changed, trace, exit_code,
          err, orig, calls>>

\* ---------------------------------------------------------------- bounds

MaxDocLen == 5
MaxCalls == 2

\* ------------------------------------------------------------- constants

BADGE_START == "<!-- coverage-badges:start -->"
BADGE_END == "<!-- coverage-badges:end -->"
NL == "\n"
FF == "\f"
Whitespace == {" "}
LineBoundaries == {NL, FF}
Pieces == {BADGE_START, BADGE_END, NL, FF, "=", "x", " "}

\* ------------------------------------------------------------------- run

\* Variant: the return code is not looked at.
RunFailed_Never(rc) == FALSE
\* run(): a non-zero return code is fatal.
RunFailed(rc) == rc # 0

\* raise SystemExit(n): the exit status the parent sees.
ExitStatus(n) == n % 256

\* -------------------------------------------------------- format_percent

\* value, in hundredths of a percent, rounded to tenths as f"{value:.1f}" does.
\* A tie exists only where the float is exact (.25, .75) and goes to even.
RoundTenths(h) ==
    LET q == h \div 10
        r == h % 10
    IN  IF r > 5 \/ (r = 5 /\ q % 2 = 1) THEN q + 1 ELSE q

format_percent(h) ==
    IF h >= 10000 THEN "100"
    ELSE LET t == RoundTenths(h)
         IN  IF t % 10 = 0 THEN ToString(t \div 10)
             ELSE ToString(t \div 10) \o "." \o ToString(t % 10)

\* ------------------------------------------------- compute_test_coverage

Opt(S) == {{}} \cup {{v} : v \in S}

LinePercents == {8300, 9725, 9750, 9996, 10000}
BranchDicts ==
    [kind : {"dict"}, covered : Opt({0, 95, 100}), count : Opt({0, 100}),
     percent : Opt({9500, 10000})]
NoBranchFields(k) == [kind |-> k, covered |-> {}, count |-> {}, percent |-> {}]
Branches == {NoBranchFields("absent"), NoBranchFields("empty")} \cup BranchDicts
Totals == [lines_percent : Opt(LinePercents), branches : Branches]
Payloads == {[read |-> TRUE, data |-> <<>>]}
            \cup {[read |-> TRUE, data |-> <<t>>] : t \in Totals}
NoReport == [read |-> FALSE, data |-> <<>>]

The(S) == CHOOSE v \in S : TRUE

\* covered/count both given.
CountsFail(b) == The(b.covered) # The(b.count)

\* Variant: the aggregate percent is not compared.
PercentFails_Never(p) == FALSE
\* only the aggregate percent to go by: percent < 100.0
PercentFails(p) == p < 10000

\* The message compute_test_coverage dies with, "" when it returns.
CoverageError(payload) ==
    IF payload.data = <<>> THEN "Coverage payload missing data section."
    ELSE LET totals == payload.data[1]
             b == totals.branches
         IN  IF totals.lines_percent = {} THEN "Line coverage percent missing."
             ELSE IF b.kind # "dict"
                  THEN "Branch coverage missing. Ensure --branch is enabled."
             ELSE IF b.covered # {} /\ b.count # {}
                  THEN IF CountsFail(b) THEN "Branch coverage below 100%." ELSE ""
             ELSE IF b.percent = {} THEN "Branch coverage summary missing percent."
             ELSE IF PercentFails(The(b.percent))
                  THEN "Branch coverage below 100%."
             ELSE ""

\* ------------------------------------------------------ build_badge_line

build_badge_line(tp, dp) ==
    "![Test Coverage](https://img.shields.io/badge/test%20coverage-" \o tp
    \o "%25-brightgreen) ![Doc Coverage](https://img.shields.io/badge/"
    \o "doc%20coverage-" \o dp \o "%25-brightgreen)"

\* --------------------------------------------------------- update_readme

Block(bl) == <<BADGE_START, NL, bl, NL, BADGE_END>>

\* `piece in content`
Contains(s, t) == \E i \in 1..Len(s) : s[i] = t

\* The first index >= from where s holds t, 0 when there is none.
FirstIndexFrom(s, t, from) ==
    IF \E i \in from..Len(s) : s[i] = t
    THEN CHOOSE i \in from..Len(s) :
             s[i] = t /\ \A j \in from..(i - 1) : s[j] # t
    ELSE 0

\* Variant: re.sub(START.*?END, block, content, count=1, flags=re.S).
re_sub_first(content, block) ==
    LET i == FirstIndexFrom(content, BADGE_START, 1)
        j == IF i = 0 THEN 0 ELSE FirstIndexFrom(content, BADGE_END, i + 1)
    IN  IF i = 0 \/ j = 0 THEN content
        ELSE SubSeq(content, 1, i - 1) \o block
             \o SubSeq(content, j + 1, Len(content))

\* re.sub(START.*?END, block, content, flags=re.S): every leftmost,
\* shortest, non-overlapping match is replaced.
RECURSIVE re_sub(_, _)
re_sub(content, block) ==
    LET i == FirstIndexFrom(content, BADGE_START, 1)
        j == IF i = 0 THEN 0 ELSE FirstIndexFrom(content, BADGE_END, i + 1)
    IN  IF i = 0 \/ j = 0 THEN content
        ELSE SubSeq(content, 1, i - 1) \o block
             \o re_sub(SubSeq(content, j + 1, Len(content)), block)

\* str.splitlines(): "\n" ends a line and so do the other line boundaries
\* ("\f" here); the last line needs no terminator and a final terminator
\* opens no empty line.
RECURSIVE splitlines(_)
splitlines(s) ==
    IF s = <<>> THEN <<>>
    ELSE IF \A i \in 1..Len(s) : s[i] \notin LineBoundaries THEN <<s>>
    ELSE LET k == CHOOSE i \in 1..Len(s) :
                      s[i] \in LineBoundaries
                      /\ \A j \in 1..(i - 1) : s[j] \notin LineBoundaries
         IN  <<SubSeq(s, 1, k - 1)>> \o splitlines(SubSeq(s, k + 1, Len(s)))

\* line.strip() is empty
IsBlank(line) == \A i \in 1..Len(line) : line[i] \in Whitespace

\* set(line) == {"="}
IsUnderline(line) == {line[i] : i \in 1..Len(line)} = {"="}

\* lines.insert(at, x), at counted from 0
InsertAt(lines, at, x) ==
    SubSeq(lines, 1, at) \o <<x>> \o SubSeq(lines, at + 1, Len(lines))

\* "\n".join(lines)
RECURSIVE Join(_)
Join(lines) ==
    IF lines = <<>> THEN <<>>
    ELSE IF Len(lines) = 1 THEN lines[1]
    ELSE lines[1] \o <<NL>> \o Join(Tail(lines))

EndsWithNewline(s) == Len(s) > 0 /\ s[Len(s)] = NL

\* Variant: lines 130-131 left out.
EnsureNewline_Missing(s) == s
EnsureNewline(s) == IF EndsWithNewline(s) THEN s ELSE Append(s, NL)

\* Variant: no title/underline detection.
InsertIndex_Top(lines) == 0
InsertIndex(lines) ==
    IF Len(lines) >= 2 /\ IsUnderline(lines[2]) THEN 2 ELSE 0

\* The else branch: the block goes in as one element of lines.
InsertBlock(content, block) ==
    LET lines0 == splitlines(content)
        at0 == InsertIndex(lines0)
        pre == at0 > 0 /\ ~IsBlank(lines0[at0])
        lines1 == IF pre THEN InsertAt(lines0, at0, <<>>) ELSE lines0
        at1 == IF pre THEN at0 + 1 ELSE at0
        lines2 == InsertAt(lines1, at1, block)
        at2 == at1 + 1
        post == at2 < Len(lines2) /\ ~IsBlank(lines2[at2 + 1])
        lines3 == IF post THEN InsertAt(lines2, at2, <<>>) ELSE lines2
    IN  EnsureNewline(Join(lines3))

Updated(content, bl) ==
    IF Contains(content, BADGE_START) /\ Contains(content, BADGE_END)
    THEN re_sub(content, Block(bl))
    ELSE InsertBlock(content, Block(bl))

\* Variant: the file is written unconditionally.
NeedsWrite_Always(updated, content) == TRUE
NeedsWrite(updated, content) == updated # content

Event(e, rc) == [ev |-> e, rc |-> rc]

Die(code, msg) ==
    /\ pc' = "done"
    /\ exit_code' = ExitStatus(code)
    /\ err' = msg

\* update_readme(badge_line), then control goes to `next`.
update_readme(next) ==
    IF ~readme_exists
    THEN /\ Die(1, "README.md not found.")
         /\ UNCHANGED <<readme, changed, trace, orig, calls>>
    ELSE LET updated == Updated(readme, badge_line)
         IN  /\ orig' = readme
             /\ calls' = calls + 1
             /\ pc' = next
             /\ UNCHANGED <<exit_code, err>>
             /\ IF NeedsWrite(updated, readme)
                THEN /\ readme' = updated
                     /\ trace' = trace \o <<Event("read", 0), Event("write", 0)>>
                     /\ changed' = TRUE
                ELSE /\ readme' = readme
                     /\ trace' = Append(trace, Event("read", 0))
                     /\ changed' = FALSE

\* ------------------------------------------------------------------ main

Set(v) == [set |-> TRUE, value |-> v]
Unset == [set |-> FALSE, value |-> <<>>]
EnvValues ==
    {Unset, Set(<<>>), Set(<<"1">>), Set(<<"0">>), Set(<<"t", "r", "u", "e">>),
     Set(<<"T", "R", "U", "E">>), Set(<<"Y", "e", "s">>), Set(<<"o", "n">>)}

\* os.environ.get(name, "")
Get(e) == IF e.set THEN e.value ELSE <<>>

LowerChar(c) ==
    CASE c = "T" -> "t" [] c = "R" -> "r" [] c = "U" -> "u" [] c = "E" -> "e"
      [] c = "Y" -> "y" [] c = "S" -> "s" [] c = "O" -> "o" [] c = "N" -> "n"
      [] OTHER -> c

\* str.lower()
Lower(v) == [i \in 1..Len(v) |-> LowerChar(v[i])]

TruthyTokens == {<<"1">>, <<"t", "r", "u", "e">>, <<"y", "e", "s">>}

\* Variant: any non-empty value counts as true.
IsTruthy_NonEmpty(v) == v # <<>>
IsTruthy(v) == Lower(v) \in TruthyTokens

\* Variant: the skip flag is not consulted.
ShouldStage_IgnoreSkip(ch, skip) == ch
ShouldStage(ch, skip) == ch /\ ~skip

ToolExitCodes == {0, 1, 101, -9}

\* main, to the branch on refresh.
ReadFlags ==
    /\ pc = "main"
    /\ refresh' = IsTruthy(Get(environ.SHIPSHAPE_REFRESH_BADGES))
    /\ skip_git_add' = IsTruthy(Get(environ.SHIPSHAPE_SKIP_GIT_ADD))
    /\ IF refresh'
       THEN /\ pc' = "compute_test_coverage"
            /\ UNCHANGED <<test_percent, doc_percent>>
       ELSE /\ pc' = "build_badge_line"
            /\ test_percent' = "100"
            /\ doc_percent' = "100"
    /\ UNCHANGED <<environ, readme_exists, readme, report, badge_line, changed,
                   trace, exit_code, err, orig, calls>>

\* compute_test_coverage(): cargo llvm-cov exits rc and leaves payload.
ComputeTestCoverage ==
    /\ pc = "compute_test_coverage"
    /\ \E rc \in ToolExitCodes, payload \in Payloads :
         /\ trace' = Append(trace, Event("llvm-cov", rc))
         /\ IF RunFailed(rc)
            THEN /\ Die(rc, "")
                 /\ UNCHANGED <<report, test_percent>>
            ELSE /\ report' = payload
                 /\ IF CoverageError(payload) # ""
                    THEN /\ Die(1, CoverageError(payload))
                         /\ UNCHANGED test_percent
                    ELSE /\ test_percent' =
                              format_percent(The(payload.data[1].lines_percent))
                         /\ pc' = "compute_doc_coverage"
                         /\ UNCHANGED <<exit_code, err>>
    /\ UNCHANGED <<environ, readme_exists, readme, refresh, skip_git_add,
                   doc_percent, badge_line, changed, orig, calls>>

\* compute_doc_coverage(): cargo doc exits rc.
ComputeDocCoverage ==
    /\ pc = "compute_doc_coverage"
    /\ \E rc \in ToolExitCodes :
         /\ trace' = Append(trace, Event("cargo-doc", rc))
         /\ IF RunFailed(rc)
            THEN /\ Die(rc, "")
                 /\ UNCHANGED doc_percent
            ELSE /\ doc_percent' = "100"
                 /\ pc' = "build_badge_line"
                 /\ UNCHANGED <<exit_code, err>>
    /\ UNCHANGED <<environ, readme_exists, readme, refresh, skip_git_add,
                   report, test_percent, badge_line, changed, orig, calls>>

BuildBadgeLine ==
    /\ pc = "build_badge_line"
    /\ badge_line' = build_badge_line(test_percent, doc_percent)
    /\ pc' = "update_readme"
    /\ UNCHANGED <<environ, readme_exists, readme, refresh, skip_git_add,
                   report, test_percent, doc_percent, changed, trace,
                   exit_code, err, orig, calls>>

UpdateReadme ==
    /\ pc = "update_readme"
    /\ update_readme("stage")
    /\ UNCHANGED <<environ, readme_exists, refresh, skip_git_add, report,
                   test_percent, doc_percent, badge_line>>

\* main's last three lines: git add exits rc.
Stage ==
    /\ pc = "stage"
    /\ IF ShouldStage(changed, skip_git_add)
       THEN \E rc \in ToolExitCodes :
              /\ trace' = Append(trace, Event("git-add", rc))
              /\ IF RunFailed(rc) THEN Die(rc, "") ELSE Die(0, "")
       ELSE /\ Die(0, "")
            /\ UNCHANGED trace
    /\ UNCHANGED <<environ, readme_exists, readme, refresh, skip_git_add,
                   report, test_percent, doc_percent, badge_line, changed,
                   orig, calls>>

\* READMEs an invocation may find.
Badge100 == build_badge_line("100", "100")
ReadmeSamples ==
    {<<>>,
     <<"x", NL>>,
     <<"x", NL, "=", NL, "x", NL>>,
     Block("x") \o <<NL>>,
     Block(Badge100) \o <<NL>>,
     <<"x", NL, "=", NL, NL>> \o Block(Badge100) \o <<NL, NL, "x", NL>>,
     <<BADGE_END, NL, BADGE_START, NL>>,
     <<BADGE_START, NL, "=", NL>>}

Init ==
    /\ environ \in [SHIPSHAPE_REFRESH_BADGES : EnvValues,
                    SHIPSHAPE_SKIP_GIT_ADD : EnvValues]
    /\ readme_exists \in BOOLEAN
    /\ readme \in IF readme_exists THEN ReadmeSamples ELSE {<<>>}
    /\ pc = "main"
    /\ refresh = FALSE
    /\ skip_git_add = FALSE
    /\ report = NoReport
    /\ test_percent = ""
    /\ doc_percent = ""
    /\ badge_line = ""
    /\ changed = FALSE
    /\ trace = <<>>
    /\ exit_code = 0
    /\ err = ""
    /\ orig = readme
    /\ calls = 0

Next ==
    \/ ReadFlags
    \/ ComputeTestCoverage
    \/ ComputeDocCoverage
    \/ BuildBadgeLine
    \/ UpdateReadme
    \/ Stage

Spec == Init /\ [][Next]_vars

\* ------------------------------------------- update_readme on its own

Docs == UNION {[1..n -> Pieces] : n \in 0..MaxDocLen}
BadgeLines == {Badge100, build_badge_line(format_percent(9750), "100")}

InitReadme ==
    /\ environ = [SHIPSHAPE_REFRESH_BADGES |-> Unset,
                  SHIPSHAPE_SKIP_GIT_ADD |-> Unset]
    /\ readme_exists \in BOOLEAN
    /\ readme \in IF readme_exists THEN Docs ELSE {<<>>}
    /\ pc = "update_readme"
    /\ refresh = FALSE
    /\ skip_git_add = FALSE
    /\ report = NoReport
    /\ test_percent = ""
    /\ doc_percent = ""
    /\ badge_line \in BadgeLines
    /\ changed = FALSE
    /\ trace = <<>>
    /\ exit_code = 0
    /\ err = ""
    /\ orig = readme
    /\ calls = 0

\* update_readme(badge_line) called again with the same badge line.
CallUpdateReadme ==
    /\ pc = "update_readme"
    /\ calls < MaxCalls
    /\ update_readme("update_readme")
    /\ UNCHANGED <<environ, readme_exists, refresh, skip_git_add, report,
                   test_percent, doc_percent, badge_line>>

NextReadme == CallUpdateReadme

SpecReadme == InitReadme /\ [][NextReadme]_vars

\* ============================================================== claims

\* The call the state shows the result of: the last update_readme call.
Returned == calls >= 1
LastCallWrote == trace # <<>> /\ trace[Len(trace)].ev = "write"
HasEvent(e) == \E i \in 1..Len(trace) : trace[i].ev = e
CountEvent(e) == Cardinality({i \in 1..Len(trace) : trace[i].ev = e})

\* The badge block appears in the document, piece for piece.
HoldsBlock(d, bl) ==
    \E i \in 1..Len(d) : i + 4 <= Len(d) /\ SubSeq(d, i, i + 4) = Block(bl)

\* A start marker with an end marker somewhere after it.
HasSpan(d) ==
    \E i \in 1..Len(d) : \E j \in (i + 1)..Len(d) : d[i] = BADGE_START /\ d[j] = BADGE_END

\* Not both markers in the document: update_readme inserts.
MarkersAbsent(d) == ~(Contains(d, BADGE_START) /\ Contains(d, BADGE_END))

\* ---------------------------------------------------------------- C1
\* C1: update_readme is idempotent: a second application with the same
\* badge line finds nothing to change, writes nothing and returns False.
C1_Idempotent ==
    calls >= 2 => /\ readme = orig
                  /\ ~changed
                  /\ ~LastCallWrote

\* ---------------------------------------------------------------- C2
\* The document read left to right, one piece at a time: a start marker
\* that has an end marker after it opens a span and puts out the block, the
\* next end marker closes the span, pieces inside a span are dropped and
\* pieces outside are copied.
RECURSIVE ScanFrom(_, _, _, _)
ScanFrom(d, i, inside, bl) ==
    IF i > Len(d) THEN <<>>
    ELSE IF inside
         THEN ScanFrom(d, i + 1, d[i] # BADGE_END, bl)
         ELSE IF d[i] = BADGE_START /\ \E j \in (i + 1)..Len(d) : d[j] = BADGE_END
              THEN Block(bl) \o ScanFrom(d, i + 1, TRUE, bl)
              ELSE <<d[i]>> \o ScanFrom(d, i + 1, FALSE, bl)

FirstStart(d) == CHOOSE i \in 1..Len(d) :
                     /\ d[i] = BADGE_START
                     /\ \E j \in (i + 1)..Len(d) : d[j] = BADGE_END
                     /\ \A k \in 1..(i - 1) : d[k] # BADGE_START
FirstEndAfter(d, i) == CHOOSE j \in (i + 1)..Len(d) :
                           d[j] = BADGE_END /\ \A k \in (i + 1)..(j - 1) : d[k] # BADGE_END

\* C2 as stated: with a start marker followed later by an end marker, exactly
\* the first start-to-end span is replaced by the block and every piece
\* before and after that span is kept verbatim.
C2_OnlyFirstSpanReplaced ==
    (Returned /\ HasSpan(orig)) =>
        LET i == FirstStart(orig)
            j == FirstEndAfter(orig, i)
        IN  readme = SubSeq(orig, 1, i - 1) \o Block(badge_line)
                     \o SubSeq(orig, j + 1, Len(orig))

\* C2 amended: with a start marker followed later by an end marker, every
\* start-to-end span (each from a start marker to the nearest end marker
\* after it, the spans taken left to right without overlap) is replaced by
\* the block, and every piece outside those spans is kept verbatim.
C2_EverySpanReplaced ==
    (Returned /\ HasSpan(orig)) => readme = ScanFrom(orig, 1, FALSE, badge_line)

C2_Witness ==
    /\ Returned
    /\ HasSpan(orig)
    /\ orig[1] = "x"
    /\ orig[Len(orig)] = "x"
    /\ readme[1] = "x"
    /\ readme[Len(readme)] = "x"
    /\ HoldsBlock(readme, badge_line)
    /\ readme # orig

\* ---------------------------------------------------------------- C3
NonBlank(line) == \E i \in 1..Len(line) : line[i] # " "
AllEquals(line) == line # <<>> /\ \A i \in 1..Len(line) : line[i] = "="
HasTitle(L) == Len(L) >= 2 /\ AllEquals(L[2])

\* The lines C3 describes for a document whose lines are L.
LinesAsClaimed(L, bl) ==
    LET head == IF HasTitle(L) THEN <<L[1], L[2], <<>>>> ELSE <<>>
        rest == IF HasTitle(L) THEN SubSeq(L, 3, Len(L)) ELSE L
        sep == IF rest # <<>> /\ NonBlank(rest[1]) THEN << <<>> >> ELSE <<>>
    IN  head \o << <<BADGE_START>>, <<bl>>, <<BADGE_END>> >> \o sep \o rest

DropFinalEmpty(L) ==
    IF L # <<>> /\ L[Len(L)] = <<>> THEN SubSeq(L, 1, Len(L) - 1) ELSE L

\* C3 as stated: with the markers absent the result's lines are title,
\* underline, a blank line and the block when the second line is all "=",
\* the block first otherwise; a blank line follows the block exactly when the
\* original line after the insertion point exists and is non-blank; all the
\* original lines are there unchanged and in order.
C3_AllLinesKept ==
    (Returned /\ MarkersAbsent(orig)) =>
        splitlines(readme) = LinesAsClaimed(splitlines(orig), badge_line)

\* C3 amended: the same, except that when the original document's last line
\* is empty that one final empty line is not in the result.
C3_LinesKeptButFinalEmpty ==
    (Returned /\ MarkersAbsent(orig)) =>
        splitlines(readme)
            = DropFinalEmpty(LinesAsClaimed(splitlines(orig), badge_line))

C3_Witness ==
    /\ Returned
    /\ MarkersAbsent(orig)
    /\ HasTitle(splitlines(orig))
    /\ Len(splitlines(orig)) >= 3
    /\ NonBlank(splitlines(orig)[3])
    /\ Len(splitlines(readme)) = Len(splitlines(orig)) + 5
    /\ splitlines(readme)[4] = <<BADGE_START>>
    /\ splitlines(readme)[7] = <<>>

\* ---------------------------------------------------------------- C4
\* C4: update_readme writes the README iff the content it computed differs
\* from the content it read, returns True exactly when it wrote, and leaves
\* the file as it was when it did not.
C4_WriteIffDifferent ==
    Returned =>
        /\ LastCallWrote <=> (Updated(orig, badge_line) # orig)
        /\ LastCallWrote <=> (readme # orig)
        /\ changed <=> LastCallWrote
        /\ LastCallWrote => readme = Updated(orig, badge_line)

C4_Witness ==
    /\ calls = 2
    /\ HasEvent("write")
    /\ ~LastCallWrote
    /\ ~changed
    /\ readme = orig

\* ---------------------------------------------------------------- C9
RECURSIVE TrailingNewlines(_)
TrailingNewlines(s) ==
    IF s = <<>> \/ s[Len(s)] # NL THEN 0
    ELSE 1 + TrailingNewlines(SubSeq(s, 1, Len(s) - 1))

RECURSIVE TrailingEmptyLines(_)
TrailingEmptyLines(L) ==
    IF L = <<>> \/ L[Len(L)] # <<>> THEN 0
    ELSE 1 + TrailingEmptyLines(SubSeq(L, 1, Len(L) - 1))

\* C9 as stated: on the insertion path the result ends with exactly one
\* trailing newline, whatever the input document.
C9_ExactlyOneNewline ==
    (Returned /\ MarkersAbsent(orig)) => TrailingNewlines(readme) = 1

\* C9 amended: on the insertion path the result ends with at least one
\* newline: with as many as the original document has empty lines at its
\* end, and with one when it has none.
C9_AtLeastOneNewline ==
    (Returned /\ MarkersAbsent(orig)) =>
        LET t == TrailingEmptyLines(splitlines(orig))
        IN  TrailingNewlines(readme) = IF t > 1 THEN t ELSE 1

C9_Witness ==
    /\ Returned
    /\ MarkersAbsent(orig)
    /\ orig # <<>>
    /\ orig[Len(orig)] = "x"
    /\ TrailingNewlines(readme) = 1

\* --------------------------------------------------------------- C10
\* C10: whenever update_readme returns normally the README holds the block
\* for the badge line it was given, whatever the arrangement of the markers.
C10_BlockAlwaysPresent ==
    Returned => HoldsBlock(readme, badge_line)
\* ------------------------------------------------ the flags, as documented
\* One of "1", "true", "yes" in any mix of upper and lower case.
IsOneOf(v, lo, up) ==
    Len(v) = Len(lo) /\ \A i \in 1..Len(v) : v[i] = lo[i] \/ v[i] = up[i]
FlagOn(e) ==
    /\ e.set
    /\ \/ e.value = <<"1">>
       \/ IsOneOf(e.value, <<"t", "r", "u", "e">>, <<"T", "R", "U", "E">>)
       \/ IsOneOf(e.value, <<"y", "e", "s">>, <<"Y", "E", "S">>)

ToolFailed(e) == \E i \in 1..Len(trace) : trace[i].ev = e /\ trace[i].rc # 0

\* ------------------------------------------- the report, as documented
HasEntry(p) == p.data # <<>>
LinePercent(p) == p.data[1].lines_percent
BranchMetric(p) == p.data[1].branches
BothCounts(b) == b.covered # {} /\ b.count # {}

ReportRejected(p) ==
    \/ ~HasEntry(p)
    \/ LinePercent(p) = {}
    \/ BranchMetric(p).kind = "absent"
    \/ /\ BothCounts(BranchMetric(p))
       /\ BranchMetric(p).covered # BranchMetric(p).count
    \/ /\ ~BothCounts(BranchMetric(p))
       /\ \E v \in BranchMetric(p).percent : v < 10000

ReportAccepted(p) ==
    /\ HasEntry(p)
    /\ LinePercent(p) # {}
    /\ BranchMetric(p).kind = "dict"
    /\ \/ /\ BothCounts(BranchMetric(p))
          /\ BranchMetric(p).covered = BranchMetric(p).count
       \/ /\ ~BothCounts(BranchMetric(p))
          /\ \E v \in BranchMetric(p).percent : v >= 10000

\* ---------------------------------------------------------------- C5
\* C5: in refresh mode, when the coverage tool exits non-zero, the report
\* fails a validation check or the documentation tool exits non-zero, the
\* invocation ends with a non-zero exit before the README is read or written
\* and before git add runs; the README is as it was.
C5_FailureLeavesReadme ==
    ( /\ FlagOn(environ.SHIPSHAPE_REFRESH_BADGES)
      /\ \/ ToolFailed("llvm-cov")
         \/ report.read /\ ~ReportAccepted(report)
         \/ ToolFailed("cargo-doc") )
    => /\ pc = "done"
       /\ exit_code # 0
       /\ ~HasEvent("read")
       /\ ~HasEvent("write")
       /\ ~HasEvent("git-add")
       /\ calls = 0
       /\ readme = orig

C5_Witness ==
    /\ FlagOn(environ.SHIPSHAPE_REFRESH_BADGES)
    /\ report.read
    /\ HasEntry(report)
    /\ BranchMetric(report).covered = {95}
    /\ BranchMetric(report).count = {100}
    /\ LinePercent(report) = {10000}
    /\ readme_exists
    /\ pc = "done"
    /\ exit_code = 1

\* ---------------------------------------------------------------- C6
StampedBadge ==
    "![Test Coverage](https://img.shields.io/badge/test%20coverage-100%25-brightgreen) ![Doc Coverage](https://img.shields.io/badge/doc%20coverage-100%25-brightgreen)"

\* C6: with SHIPSHAPE_REFRESH_BADGES unset or not one of "1", "true", "yes"
\* (any case), neither the coverage tool nor the documentation tool runs and
\* the badge line patched into the README carries 100 and 100.
C6_StampMode ==
    ~FlagOn(environ.SHIPSHAPE_REFRESH_BADGES) =>
        /\ ~HasEvent("llvm-cov")
        /\ ~HasEvent("cargo-doc")
        /\ pc \in {"update_readme", "stage", "done"} => badge_line = StampedBadge
        /\ HasEvent("write") => HoldsBlock(readme, StampedBadge)

C6_Witness ==
    /\ environ.SHIPSHAPE_REFRESH_BADGES = Set(<<"o", "n">>)
    /\ pc = "done"
    /\ HasEvent("write")
    /\ HoldsBlock(readme, StampedBadge)
    /\ exit_code = 0

\* ---------------------------------------------------------------- C7
\* C7: git add on the README runs iff update_readme wrote the README in this
\* invocation and SHIPSHAPE_SKIP_GIT_ADD is not truthy; at most once and
\* only after the write.
C7_StageIffWritten ==
    /\ CountEvent("git-add") <= 1
    /\ \A i \in 1..Len(trace) :
         trace[i].ev = "git-add" =>
             /\ \E j \in 1..(i - 1) : trace[j].ev = "write"
             /\ ~FlagOn(environ.SHIPSHAPE_SKIP_GIT_ADD)
    /\ (pc = "done" /\ HasEvent("write")
        /\ ~FlagOn(environ.SHIPSHAPE_SKIP_GIT_ADD)) => HasEvent("git-add")

C7_Witness ==
    /\ pc = "done"
    /\ CountEvent("write") = 1
    /\ CountEvent("git-add") = 1
    /\ trace[Len(trace)].ev = "git-add"
    /\ environ.SHIPSHAPE_SKIP_GIT_ADD = Set(<<"0">>)

\* ---------------------------------------------------------------- C8
\* The formatted percentages the documentation gives.
Formatted(h) ==
    CASE h = 8300 -> "83" [] h = 9725 -> "97.2" [] h = 9750 -> "97.5"
      [] h = 9996 -> "100" [] h = 10000 -> "100"

\* compute_test_coverage died: the invocation is over and the coverage tool
\* is all that ran.
DiedInCoverage == pc = "done" /\ Len(trace) = 1 /\ exit_code # 0 /\ err # ""

\* C8: once the coverage tool succeeded, compute_test_coverage dies when the
\* report has no entry, no line percent, no branch field, both branch counts
\* and they differ, or only a branch percent and it is below 100.0; it
\* returns the formatted line percentage when there is an entry, a line
\* percent and a branch metric with both counts equal or, without both
\* counts, a percent of at least 100.0.
C8_ReportChecks ==
    report.read =>
        /\ ReportRejected(report) => DiedInCoverage
        /\ ReportAccepted(report) =>
               /\ ~DiedInCoverage
               /\ \E h \in LinePercent(report) : test_percent = Formatted(h)

C8_Witness ==
    /\ report.read
    /\ HasEntry(report)
    /\ BranchMetric(report) = [kind |-> "dict", covered |-> {}, count |-> {100},
                               percent |-> {9500}]
    /\ DiedInCoverage

====
